---- MODULE Spec2Model ----
(***************************************************************************)
(* Uyghur Typing Game: the session engine (UyghurTypingGame), the score    *)
(* ledger (ScoreManager) and the host flow (UIManager) that drives them,   *)
(* together with the browser's timer queue, the keydown event in flight    *)
(* and the localStorage entry of the cumulative score.                     *)
(*                                                                         *)
(* Every method of the source is an operator from a world record to a     *)
(* world record, composed exactly as the source calls them; an action is   *)
(* one task of the event loop (a click handler, a keydown dispatch, a      *)
(* timer callback) run to completion.                                      *)
(*                                                                         *)
(* Spec is the whole page: host flow, engine, ledger, timers and keys.    *)
(* SpecLedger is the ScoreManager alone, loaded from any short content of  *)
(* the storage entry and driven through its own methods.                   *)
(*                                                                         *)
(* Not modelled: DOM elements and their styles (letters, burst particles,  *)
(* score text, the 250 ms opacity toggle of a running flicker interval):   *)
(* a running interval is a member of `intervals`, its callback changes     *)
(* only el.style.opacity.                                                  *)
(***************************************************************************)
EXTENDS Integers, Sequences, FiniteSets

\* ---------------------------------------------------------------- bounds
\* Sessions (UyghurTypingGame instances) created in one page life.
MaxSessions == 2
\* Size of the alphabet the sequence is drawn from (allLetters has 30).
NumLetters == 2
\* Granularity of the clock, in ms.
TimeStep == 1000
\* Longest content of the storage entry a page load is tried on.
MaxStoredLen == 3
\* Points a session of the ledger alone may reach, and the cumulative score
\* up to which it is followed.
MaxLedgerPoints == 20
MaxLedgerTotal == 460

\* ---------------------------------------------------------------- CONFIG
\* Letters per sequence and advance limit (7 and 7 in the source; the
\* model runs the same code with a shorter sequence).
LETTER_COUNT == 2
MAX_ADVANCE == 2
FLICKER_DELAY == 7000
FALL_DELAY == 10000
POINTS == 10

Letters == 1..NumLetters
\* ev.key of a keydown: a key of the Uyghur layout.
Keys == Letters
Sessions == 1..MaxSessions

\* ------------------------------------------------------------ JS numbers
\* A JS number that is an integer or NaN.
NaN == [nan |-> TRUE, n |-> 0]
Num(i) == [nan |-> FALSE, n |-> i]
JsAdd(a, i) == IF a.nan THEN NaN ELSE Num(a.n + i)

\* ------------------------------------------------------------ JS strings
\* A string is a sequence of one-character strings.
DigitChars == <<"0", "1", "2", "3", "4", "5", "6", "7", "8", "9">>
IsDigit(c) == \E i \in 1..10 : DigitChars[i] = c
DigitVal(c) == (CHOOSE i \in 1..10 : DigitChars[i] = c) - 1
\* StrWhiteSpaceChar, which parseInt skips before the number: tab, LF, VT,
\* FF, CR, space, NBSP (U+00A0), U+1680 and BOM (U+FEFF). The other members
\* of the class (U+2000..U+200A, U+2028, U+2029, U+202F, U+205F, U+3000)
\* cannot be written in a string of this language and are not characters
\* of the model.
WhiteSpaceChars ==
  {"\t", "\n", "", "\f", "\r", " ", " ", " ", "﻿"}
IsSpace(c) == c \in WhiteSpaceChars

RECURSIVE SkipSpaces(_)
SkipSpaces(str) ==
  IF str # <<>> /\ IsSpace(Head(str)) THEN SkipSpaces(Tail(str)) ELSE str

\* Value of the longest prefix of decimal digits of str, from accumulator
\* acc; `seen` tells whether a digit has been read.
RECURSIVE ParseDigits(_, _, _)
ParseDigits(str, acc, seen) ==
  IF str # <<>> /\ IsDigit(Head(str))
  THEN ParseDigits(Tail(str), acc * 10 + DigitVal(Head(str)), TRUE)
  ELSE IF seen THEN Num(acc) ELSE NaN

\* parseInt(str, 10): leading white space, an optional sign, then digits up
\* to the first character that is not one; NaN when there is no digit.
parseInt(str) ==
  LET s == SkipSpaces(str)
      neg == s # <<>> /\ Head(s) = "-"
      body == IF s # <<>> /\ Head(s) \in {"-", "+"} THEN Tail(s) ELSE s
      v == ParseDigits(body, 0, FALSE)
  IN IF v.nan THEN NaN ELSE IF neg THEN Num(0 - v.n) ELSE v

RECURSIVE NatToString(_)
NatToString(i) ==
  IF i < 10 THEN <<DigitChars[i + 1]>>
  ELSE NatToString(i \div 10) \o <<DigitChars[(i % 10) + 1]>>

\* Number.prototype.toString() of an integer or NaN.
toString(a) ==
  IF a.nan THEN <<"N", "a", "N">>
  ELSE IF a.n < 0 THEN <<"-">> \o NatToString(0 - a.n)
  ELSE NatToString(a.n)

\* localStorage.getItem of a key that was never set.
Absent == <<"null">>

\* ----------------------------------------------------------------- state
VARIABLES
  storage,      \* localStorage[TOTAL_SCORE_KEY]: Absent or a string
  score,        \* ScoreManager.score
  totalScore,   \* ScoreManager.totalScore
  gameInstance, \* UIManager.gameInstance: 0 (null) or the instance's number
  endScreen,    \* EndScreen: whether the modal is visible
  created,      \* number of UyghurTypingGame instances constructed so far
  game,         \* per instance: seq, idx, letterT, flicker
  listeners,    \* instances whose keyHandler is a keydown listener
  timeouts,     \* pending setTimeout callbacks, in order of creation, each
                \* with the ms left to its deadline and the ms since its call
  intervals,    \* running setInterval callbacks
  flickered,    \* startTimer closures whose `flickered` flag is true
  keyQ,         \* the keydown event queued for dispatch, if any
  lastKey,      \* the keydown event the last step dispatched, if it was one
  hits,         \* per instance: positions handleCorrectKey consumed
  misses,       \* per instance: positions whose fall callback ran
  startTotal,   \* per instance: totalScore when the session started
  overCalls,    \* per instance: number of onGameOver calls
  overArgs      \* arguments of the onGameOver calls of the latest instance:
                \* <<currentScore, totalScore at the call>>

vars == <<storage, score, totalScore, gameInstance, endScreen, created, game,
          listeners, timeouts, intervals, flickered, keyQ, lastKey, hits,
          misses, startTotal, overCalls, overArgs>>

\* A timer handle; NoHandle is `undefined`.
NoHandle == [kind |-> "none", s |-> 0, p |-> 0]
Handle(k, s, p) == [kind |-> k, s |-> s, p |-> p]
NoKey == [key |-> 0 - 1, s |-> 0, p |-> 0]
\* A dispatched event: the key, the instance and cursor it was pressed for,
\* the cursor it found, and whether handleCorrectKey ran for it.
NoDispatch == [key |-> 0 - 1, s |-> 0, p |-> 0, at |-> 0, hit |-> FALSE]

\* The fields of an instance that has not been constructed.
NoGame == [seq |-> <<>>, idx |-> 0, letterT |-> NoHandle, flicker |-> NoHandle]

\* The state as a record.  lastKey is NoDispatch: it holds an event only
\* in the state a dispatch produces.
World ==
  [storage |-> storage, score |-> score, totalScore |-> totalScore,
   gameInstance |-> gameInstance, endScreen |-> endScreen, created |-> created,
   game |-> game, listeners |-> listeners, timeouts |-> timeouts,
   intervals |-> intervals, flickered |-> flickered, keyQ |-> keyQ,
   lastKey |-> NoDispatch,
   hits |-> hits, misses |-> misses, overCalls |-> overCalls,
   startTotal |-> startTotal, overArgs |-> overArgs]

Becomes(w) ==
  /\ storage' = w.storage
  /\ score' = w.score
  /\ totalScore' = w.totalScore
  /\ gameInstance' = w.gameInstance
  /\ endScreen' = w.endScreen
  /\ created' = w.created
  /\ game' = w.game
  /\ listeners' = w.listeners
  /\ timeouts' = w.timeouts
  /\ intervals' = w.intervals
  /\ flickered' = w.flickered
  /\ keyQ' = w.keyQ
  /\ lastKey' = w.lastKey
  /\ hits' = w.hits
  /\ misses' = w.misses
  /\ overCalls' = w.overCalls
  /\ startTotal' = w.startTotal
  /\ overArgs' = w.overArgs

\* ------------------------------------------------------------ timer queue
SameTimer(t, h) == t.kind = h.kind /\ t.s = h.s /\ t.p = h.p

\* Mutant: cancellation that cancels nothing.
clearTimeout_noop(w, h) == w

\* clearTimeout(h): a no-op when h is undefined or has fired.
clearTimeout(w, h) ==
  [w EXCEPT !.timeouts = SelectSeq(@, LAMBDA t : ~SameTimer(t, h))]

\* clearInterval(h)
clearInterval(w, h) == [w EXCEPT !.intervals = @ \ {h}]

\* setTimeout(callback kind of startTimer(s, p), delay)
setTimeout(w, k, s, p, delay) ==
  [w EXCEPT !.timeouts = Append(@, [kind |-> k, s |-> s, p |-> p, left |-> delay,
                                    age |-> 0])]

\* ------------------------------------------------------------ ScoreManager
loadTotalScore(st) ==
  IF st # Absent /\ st # <<>> THEN parseInt(st) ELSE Num(0)

\* Mutant: the session counter is what gets stored.
saveTotalScore_session(w) == [w EXCEPT !.storage = toString(w.score)]

saveTotalScore(w) == [w EXCEPT !.storage = toString(w.totalScore)]

\* Mutant: the session counter is left as it is.
reset_noop(w) == w

\* Mutant: both counters are zeroed.
reset_clearsTotal(w) == [w EXCEPT !.score = Num(0), !.totalScore = Num(0)]

reset(w) == [w EXCEPT !.score = Num(0)]

\* Mutant: the points reach the session counter only.
increment_sessionOnly(w, points) ==
  saveTotalScore([w EXCEPT !.score = JsAdd(@, points)])

\* Mutant: the cumulative counter is not written to the storage.
increment_noSave(w, points) ==
  [w EXCEPT !.score = JsAdd(@, points), !.totalScore = JsAdd(@, points)]

increment(w, points) ==
  saveTotalScore([w EXCEPT !.score = JsAdd(@, points),
                           !.totalScore = JsAdd(@, points)])

\* -------------------------------------------------------- UyghurTypingGame
Field(w, s, f, v) == [w EXCEPT !.game[s][f] = v]

\* Mutant: the oldest pending timeout is cancelled, whatever letterT names.
resetState_dropsOldest(w, s) ==
  LET w1 == Field(Field(w, s, "seq", <<>>), s, "idx", 0)
      w2 == [w1 EXCEPT !.timeouts = IF @ = <<>> THEN @ ELSE Tail(@)]
  IN clearInterval(w2, w2.game[s].flicker)

resetState(w, s) ==
  LET w1 == Field(Field(w, s, "seq", <<>>), s, "idx", 0)
      w2 == clearTimeout(w1, w1.game[s].letterT)
  IN clearInterval(w2, w2.game[s].flicker)

newSequence(w, s, sq) == Field(w, s, "seq", sq)

clearRender(w, s) ==
  clearInterval(clearTimeout(w, w.game[s].letterT), w.game[s].flicker)

\* Arms the flicker timeout and the fall timeout of the letter at idx; both
\* handles are assigned to letterT, one after the other.
\* Mutant: a letter after the first gets only the time between warning and
\* fall.
startTimer_short(w, s) ==
  LET p == w.game[s].idx
      d == IF p > 0 THEN FALL_DELAY - FLICKER_DELAY ELSE FALL_DELAY
      w1 == setTimeout(w, "flicker", s, p, FLICKER_DELAY)
      w2 == Field(w1, s, "letterT", Handle("flicker", s, p))
      w3 == setTimeout(w2, "fall", s, p, d)
  IN IF p >= Len(w.game[s].seq) THEN w
     ELSE Field(w3, s, "letterT", Handle("fall", s, p))

\* Mutant: only the first letter gets a fall timeout.
startTimer_firstFallOnly(w, s) ==
  LET p == w.game[s].idx
      w1 == setTimeout(w, "flicker", s, p, FLICKER_DELAY)
      w2 == Field(w1, s, "letterT", Handle("flicker", s, p))
      w3 == setTimeout(w2, "fall", s, p, FALL_DELAY)
  IN IF p >= Len(w.game[s].seq) THEN w
     ELSE IF p > 0 THEN w2
     ELSE Field(w3, s, "letterT", Handle("fall", s, p))

startTimer(w, s) ==
  LET p == w.game[s].idx
      w1 == setTimeout(w, "flicker", s, p, FLICKER_DELAY)
      w2 == Field(w1, s, "letterT", Handle("flicker", s, p))
      w3 == setTimeout(w2, "fall", s, p, FALL_DELAY)
  IN IF p >= Len(w.game[s].seq) THEN w
     ELSE Field(w3, s, "letterT", Handle("fall", s, p))

render(w, s) == startTimer(clearRender(w, s), s)

start(w, s, sq) ==
  LET w1 == resetState(w, s)
      w2 == [w1 EXCEPT !.listeners = @ \cup {s}]
  IN render(newSequence(w2, s, sq), s)

\* UIManager.handleGameEnd, the onGameOver callback of every instance.
handleGameEnd(w, currentScore) ==
  LET w1 == saveTotalScore(w)
      w2 == [w1 EXCEPT !.endScreen = TRUE,
                       !.overArgs = Append(@, <<currentScore, w1.totalScore>>)]
      g == w2.gameInstance
  IN IF g # 0
     THEN [clearRender([w2 EXCEPT !.listeners = @ \ {g}], g)
             EXCEPT !.gameInstance = 0]
     ELSE w2

endGame(w, s) ==
  LET w1 == [w EXCEPT !.listeners = @ \ {s}, !.overCalls[s] = @ + 1]
  IN handleGameEnd(w1, w1.score)

\* Mutant: the limit test is > instead of >=.
nextLetter_offByOne(w, s) ==
  LET w1 == Field(w, s, "idx", w.game[s].idx + 1)
  IN IF w1.game[s].idx > MAX_ADVANCE THEN endGame(w1, s)
     ELSE startTimer(w1, s)

\* Mutant: every advance is paid, whatever caused it.
nextLetter_pays(w, s) ==
  LET w1 == Field(increment(w, POINTS), s, "idx", w.game[s].idx + 1)
  IN IF w1.game[s].idx >= MAX_ADVANCE THEN endGame(w1, s)
     ELSE startTimer(w1, s)

nextLetter(w, s) ==
  LET w1 == Field(w, s, "idx", w.game[s].idx + 1)
  IN IF w1.game[s].idx >= MAX_ADVANCE THEN endGame(w1, s)
     ELSE startTimer(w1, s)

\* Mutant: the fall timeout is not cancelled on a match.
handleCorrectKey_noClear(w, s) ==
  LET w2 == clearInterval(w, w.game[s].flicker)
      w3 == [w2 EXCEPT !.hits[s] = @ \cup {w.game[s].idx}]
  IN nextLetter(increment(w3, POINTS), s)

\* Mutant: a match is paid twice.
handleCorrectKey_double(w, s) ==
  LET w1 == clearTimeout(w, w.game[s].letterT)
      w2 == clearInterval(w1, w1.game[s].flicker)
      w3 == [w2 EXCEPT !.hits[s] = @ \cup {w.game[s].idx}]
  IN nextLetter(increment(increment(w3, POINTS), POINTS), s)

handleCorrectKey(w, s) ==
  LET w1 == clearTimeout(w, w.game[s].letterT)
      w2 == clearInterval(w1, w1.game[s].flicker)
      w3 == [w2 EXCEPT !.hits[s] = @ \cup {w.game[s].idx}]
  IN nextLetter(increment(w3, POINTS), s)

\* Mutant: any key that occurs in the sequence is taken as correct.
keyHandler_includes(w, s, key) ==
  IF w.game[s].idx >= Len(w.game[s].seq) THEN w
  ELSE IF \E i \in 1..Len(w.game[s].seq) : key = w.game[s].seq[i]
       THEN handleCorrectKey([w EXCEPT !.lastKey.hit = TRUE], s)
  ELSE w

\* Mutant: a wrong key costs the letter.
keyHandler_wrongSkips(w, s, key) ==
  IF w.game[s].idx >= Len(w.game[s].seq) THEN w
  ELSE IF key = w.game[s].seq[w.game[s].idx + 1]
       THEN handleCorrectKey([w EXCEPT !.lastKey.hit = TRUE], s)
  ELSE nextLetter(clearTimeout(w, w.game[s].letterT), s)

keyHandler(w, s, key) ==
  IF w.game[s].idx >= Len(w.game[s].seq) THEN w
  ELSE IF key = w.game[s].seq[w.game[s].idx + 1]
       THEN handleCorrectKey([w EXCEPT !.lastKey.hit = TRUE], s)
  ELSE w

\* An instance whose fields some code can still read: the latest one (kept
\* for observation), one whose key handler is registered, one with a fall
\* callback pending.  A pending flicker callback writes this.flicker and
\* reads no field.
Readable(w, s) ==
  \/ s = w.created
  \/ s \in w.listeners
  \/ \E i \in 1..Len(w.timeouts) : w.timeouts[i].kind = "fall" /\ w.timeouts[i].s = s

\* Garbage collection: the fields of the instances nothing can read, and
\* the observations made of them, are dropped.
Collect(w) ==
  LET dead == {s \in Sessions : ~Readable(w, s)}
  IN [w EXCEPT !.game = [s \in Sessions |-> IF s \in dead THEN NoGame ELSE @[s]],
               !.hits = [s \in Sessions |-> IF s \in dead THEN {} ELSE @[s]],
               !.misses = [s \in Sessions |-> IF s \in dead THEN {} ELSE @[s]],
               !.startTotal = [s \in Sessions |-> IF s \in dead THEN Num(0) ELSE @[s]]]

\* The first callback of startTimer(s, p), run at the flicker deadline.
flickerCallback(w, s, p) ==
  LET w1 == [w EXCEPT !.flickered = @ \cup {<<s, p>>},
                      !.intervals = @ \cup {Handle("interval", s, p)}]
  IN IF Readable(w, s) THEN Field(w1, s, "flicker", Handle("interval", s, p))
     ELSE w1

\* Mutant: a letter that falls is paid like a letter that was typed.
fallCallback_awards(w, s, p) ==
  LET w1 == IF <<s, p>> \in w.flickered
            THEN clearInterval(w, w.game[s].flicker) ELSE w
      w2 == [w1 EXCEPT !.misses[s] = @ \cup {p}]
  IN nextLetter(increment(w2, POINTS), s)

\* The second callback of startTimer(s, p), run at the fall deadline.
fallCallback(w, s, p) ==
  LET w1 == IF <<s, p>> \in w.flickered
            THEN clearInterval(w, w.game[s].flicker) ELSE w
      w2 == [w1 EXCEPT !.misses[s] = @ \cup {p}]
  IN nextLetter(w2, s)

\* ---------------------------------------------------------------- UIManager
actuallyStartGame(w, sq) ==
  LET g == w.gameInstance
      w1 == IF g # 0
            THEN clearRender(resetState([w EXCEPT !.listeners = @ \ {g}], g), g)
            ELSE w
      w2 == reset(w1)
      w3 == [w2 EXCEPT !.endScreen = FALSE]
      n == w.created + 1
      w4 == Collect([w3 EXCEPT !.created = n, !.gameInstance = n,
                               !.startTotal[n] = w3.totalScore,
                               !.overArgs = <<>>])
  IN start(resetState(w4, n), n, sq)

\* Mutant: the key handler stays registered when the player backs out.
handleBackButtonClick_keepsListener(w) ==
  LET w1 == saveTotalScore(w)
      g == w1.gameInstance
      w2 == IF g # 0
            THEN [clearRender(w1, g) EXCEPT !.gameInstance = 0]
            ELSE w1
  IN [w2 EXCEPT !.endScreen = FALSE]

handleBackButtonClick(w) ==
  LET w1 == saveTotalScore(w)
      g == w1.gameInstance
      w2 == IF g # 0
            THEN [clearRender([w1 EXCEPT !.listeners = @ \ {g}], g)
                    EXCEPT !.gameInstance = 0]
            ELSE w1
  IN [w2 EXCEPT !.endScreen = FALSE]

\* ---------------------------------------------------------------- event loop
\* Dispatch of a keydown event to the registered key handlers.
RECURSIVE dispatch(_, _, _)
dispatch(w, ss, key) ==
  IF ss = {} THEN w
  ELSE LET s == CHOOSE x \in ss : \A y \in ss : x <= y
       IN dispatch(IF s \in w.listeners THEN keyHandler(w, s, key) ELSE w,
                   ss \ {s}, key)

Due(i) == timeouts[i].left = 0
\* Timers run in order of deadline, and in order of creation on a tie.
NextDue(i) == Due(i) /\ \A j \in 1..(i - 1) : ~Due(j)
Without(ts, i) == SubSeq(ts, 1, i - 1) \o SubSeq(ts, i + 1, Len(ts))

\* Contents of the storage entry when the page is loaded.
InitialStorage ==
  {Absent, <<"4", "0">>, <<" ", "\t", "4">>, <<"a", "b", "c">>}

Init ==
  /\ storage \in InitialStorage
  /\ score = Num(0)
  /\ totalScore = loadTotalScore(storage)
  /\ gameInstance = 0
  /\ endScreen = FALSE
  /\ created = 0
  /\ game = [s \in Sessions |-> NoGame]
  /\ listeners = {}
  /\ timeouts = <<>>
  /\ intervals = {}
  /\ flickered = {}
  /\ keyQ = NoKey
  /\ lastKey = NoDispatch
  /\ hits = [s \in Sessions |-> {}]
  /\ misses = [s \in Sessions |-> {}]
  /\ overCalls = [s \in Sessions |-> 0]
  /\ startTotal = [s \in Sessions |-> Num(0)]
  /\ overArgs = <<>>

\* HelpBox confirm or the replay button: UIManager.actuallyStartGame.  Events
\* are dispatched in the order they were queued, so a click waits for a
\* queued keydown.
StartGame ==
  /\ created < MaxSessions
  /\ keyQ = NoKey
  /\ \E sq \in [1..LETTER_COUNT -> Letters] : Becomes(actuallyStartGame(World, sq))

\* The back button.
Back ==
  /\ keyQ = NoKey
  /\ gameInstance # 0
  /\ Becomes(handleBackButtonClick(World))

\* The end screen's button: EndScreen.hide, then UIManager.showHomeScreen.
PlayAgain ==
  /\ keyQ = NoKey
  /\ endScreen
  /\ Becomes([World EXCEPT !.endScreen = FALSE])

\* The player presses a key: the keydown event is queued.  It is meant for
\* the letter at the cursor of the running game, if there is one.
PressKey ==
  /\ keyQ = NoKey
  /\ \E k \in Keys :
       keyQ' = [key |-> k, s |-> gameInstance,
                p |-> IF gameInstance # 0 THEN game[gameInstance].idx ELSE 0]
  /\ lastKey' = NoDispatch
  /\ UNCHANGED <<storage, score, totalScore, gameInstance, endScreen, created,
                 game, listeners, timeouts, intervals, flickered, hits, misses,
                 overCalls, startTotal, overArgs>>

\* The queued keydown event is dispatched.
HandleKey ==
  /\ keyQ # NoKey
  /\ LET at == IF keyQ.s # 0 THEN game[keyQ.s].idx ELSE 0
         w == [World EXCEPT !.keyQ = NoKey,
                            !.lastKey = [key |-> keyQ.key, s |-> keyQ.s, p |-> keyQ.p,
                                         at |-> at, hit |-> FALSE]]
     IN Becomes(dispatch(w, listeners, keyQ.key))

\* A flicker timeout that is due runs.
FireFlicker ==
  \E i \in 1..Len(timeouts) :
    /\ NextDue(i)
    /\ timeouts[i].kind = "flicker"
    /\ Becomes(flickerCallback([World EXCEPT !.timeouts = Without(@, i)],
                               timeouts[i].s, timeouts[i].p))

\* A fall timeout that is due runs.
FireFall ==
  \E i \in 1..Len(timeouts) :
    /\ NextDue(i)
    /\ timeouts[i].kind = "fall"
    /\ Becomes(fallCallback([World EXCEPT !.timeouts = Without(@, i)],
                            timeouts[i].s, timeouts[i].p))

\* Time passes while no task is ready to run: no timeout is due and no
\* event is queued.
Tick ==
  /\ keyQ = NoKey
  /\ timeouts # <<>>
  /\ \A i \in 1..Len(timeouts) : ~Due(i)
  /\ timeouts' = [i \in 1..Len(timeouts) |->
                    [timeouts[i] EXCEPT !.left = IF @ > TimeStep THEN @ - TimeStep ELSE 0,
                                        !.age = @ + TimeStep]]
  /\ lastKey' = NoDispatch
  /\ UNCHANGED <<storage, score, totalScore, gameInstance, endScreen, created,
                 game, listeners, intervals, flickered, keyQ, hits, misses,
                 overCalls, startTotal, overArgs>>

Next ==
  \/ StartGame
  \/ Back
  \/ PlayAgain
  \/ PressKey
  \/ HandleKey
  \/ FireFlicker
  \/ FireFall
  \/ Tick

Spec == Init /\ [][Next]_vars

\* No timeout is due.
NoneDue == \A i \in 1..Len(timeouts) : ~Due(i)

\* The event loop's scheduling.  The player's clicks and key presses are
\* under no obligation.
\*  - Time goes on however many events arrive: no infinity of key presses
\*    fits between two moments.
\*  - A timeout that is due runs.  FireFlicker or FireFall is enabled exactly
\*    when a timeout is due, and a timeout becomes due only by a Tick, which
\*    waits until none is due; so WF_vars(FireFlicker \/ FireFall) says that
\*    again and again no timeout is due.
\*  - A queued event is dispatched.  HandleKey is enabled exactly when an
\*    event is queued and empties the queue; so WF_vars(HandleKey) says that
\*    again and again the queue is empty.
Fairness ==
  /\ SF_vars(Tick)
  /\ []<>NoneDue
  /\ []<>(keyQ = NoKey)

SpecLive == Spec /\ Fairness

\* ------------------------------------------------------- the ledger alone
\* new ScoreManager(displayElement), run when the page is loaded.
newScoreManager(w) ==
  [w EXCEPT !.score = Num(0), !.totalScore = loadTotalScore(w.storage)]

\* Characters of the storage entry: digits, a sign, a letter, a point, a tab.
StoredChars == {"0", "4", "-", "a", ".", "\t"}
\* What the storage entry may hold when the page is loaded: nothing, or any
\* string (another script, an older version or the user may have written it).
StoredStrings ==
  {Absent} \cup UNION {[1..n -> StoredChars] : n \in 0..MaxStoredLen}

InitLedger ==
  /\ storage \in StoredStrings
  /\ score = Num(0)
  /\ totalScore = loadTotalScore(storage)
  /\ gameInstance = 0
  /\ endScreen = FALSE
  /\ created = 0
  /\ game = [s \in Sessions |-> NoGame]
  /\ listeners = {}
  /\ timeouts = <<>>
  /\ intervals = {}
  /\ flickered = {}
  /\ keyQ = NoKey
  /\ lastKey = NoDispatch
  /\ hits = [s \in Sessions |-> {}]
  /\ misses = [s \in Sessions |-> {}]
  /\ overCalls = [s \in Sessions |-> 0]
  /\ startTotal = [s \in Sessions |-> Num(0)]
  /\ overArgs = <<>>

\* The page is loaded again: a new ScoreManager reads the storage entry.
LedgerLoad == Becomes(newScoreManager(World))

\* Arguments of increment: the 10 of the source's only call (and the
\* parameter's default), and two other amounts a caller may pass.
LedgerPoints == {0, 7, POINTS}

\* scoreManager.increment(points)
LedgerIncrement ==
  /\ score.n < MaxLedgerPoints
  /\ totalScore.nan \/ totalScore.n < MaxLedgerTotal
  /\ \E points \in LedgerPoints : Becomes(increment(World, points))

LedgerReset == Becomes(reset(World))

LedgerSave == Becomes(saveTotalScore(World))

NextLedger ==
  \/ LedgerLoad
  \/ LedgerIncrement
  \/ LedgerReset
  \/ LedgerSave

SpecLedger == InitLedger /\ [][NextLedger]_vars

\* ===================================================================
\* Properties
\* ===================================================================
Positions == 0..(MAX_ADVANCE - 1)
PendingOf(k) == {i \in 1..Len(timeouts) : timeouts[i].kind = k}

\* C1 -- Timer exclusivity: every position of a session is left by exactly
\* one of {match, expiry}: no position is both consumed by a match and
\* missed by its fall callback, the cursor counts the positions left, and
\* no fall timeout is pending for a position that was matched or missed.
TimerExclusivity ==
  \A s \in Sessions :
    /\ hits[s] \cap misses[s] = {}
    /\ Cardinality(hits[s] \cup misses[s]) = game[s].idx
    /\ \A i \in PendingOf("fall") :
         timeouts[i].s = s => timeouts[i].p \notin (hits[s] \cup misses[s])

\* A session in which position 0 was matched and, later, position 1 expired:
\* time has run past the deadline the fall timeout of position 0 had.
TimerExclusivityWitness ==
  \E s \in Sessions : 0 \in hits[s] /\ 1 \in misses[s]

\* C2 -- At most one timer pair: at most one flicker timeout and at most one
\* fall timeout are pending, and every pending timeout belongs to the
\* position at the cursor of the running game.
OneTimerPair ==
  /\ Cardinality(PendingOf("flicker")) <= 1
  /\ Cardinality(PendingOf("fall")) <= 1
  /\ \A i \in 1..Len(timeouts) :
       /\ timeouts[i].s = gameInstance
       /\ timeouts[i].p = game[timeouts[i].s].idx

\* C3 -- The warning repetition is cancelled on match and on expiry: a
\* running flicker interval belongs to the position at the cursor of the
\* running game, never to a position already consumed or missed.
FlickerOnlyForActive ==
  \A h \in intervals :
    /\ h.s = gameInstance
    /\ h.p = game[h.s].idx
    /\ h.p \notin (hits[h.s] \cup misses[h.s])

\* C4 -- onGameOver is called exactly once per session, when the cursor
\* reaches the advance limit, and never again: no instance has called it
\* twice, and the latest instance has called it iff its cursor is at the
\* limit.
GameOverOnce ==
  /\ \A s \in Sessions :
       /\ overCalls[s] <= 1
       /\ s > created => overCalls[s] = 0
       /\ s = created =>
            overCalls[s] = (IF game[s].idx >= MAX_ADVANCE THEN 1 ELSE 0)
  /\ Len(overArgs) = (IF created = 0 THEN 0 ELSE overCalls[created])

\* Session 1 has ended; since then the flicker timeout of its last position
\* has run and a key event has been dispatched.
GameOverOnceWitness ==
  /\ created = 1
  /\ overCalls[1] = 1
  /\ Handle("interval", 1, MAX_ADVANCE - 1) \in intervals
  /\ lastKey # NoDispatch

\* C5 -- Cursor bound: 0 <= idx <= MAX_ADVANCE for every instance, and
\* idx <= seq.length while a sequence exists.
CursorBound ==
  \A s \in Sessions :
    /\ game[s].idx \in 0..MAX_ADVANCE
    /\ game[s].seq # <<>> => game[s].idx <= Len(game[s].seq)

\* The second session, started over a running one, has reached the limit
\* by one match and one expiry.
CursorBoundWitness ==
  /\ created = 2
  /\ game[2].idx = MAX_ADVANCE
  /\ hits[2] # {}
  /\ misses[2] # {}

\* C6 -- The cumulative score is a non-negative integer in every state and
\* never below what it was when a session started.
CumulativeScoreNat ==
  /\ ~totalScore.nan
  /\ totalScore.n >= 0
  /\ \A s \in Sessions :
       s <= created => ~startTotal[s].nan /\ startTotal[s].n <= totalScore.n

\* C7 -- Cross-session cancellation: every pending timeout and every
\* running interval was armed by the latest instance; none is left over
\* from a session that a later start has superseded.
NoTimerOfEarlierSession ==
  /\ \A i \in 1..Len(timeouts) : timeouts[i].s = created
  /\ \A h \in intervals : h.s = created

\* C8 -- Ended is timer-free: an instance that has called onGameOver has no
\* pending timeout and no running interval.
EndedTimerFree ==
  \A s \in Sessions :
    overCalls[s] >= 1 =>
      /\ \A i \in 1..Len(timeouts) : timeouts[i].s # s
      /\ \A h \in intervals : h.s # s

\* The dispatch of a stale key event: the event was queued for position p of
\* an instance whose cursor has since moved past p.
StaleDispatch ==
  /\ keyQ # NoKey
  /\ keyQ.s # 0
  /\ keyQ.p < game[keyQ.s].idx
  /\ keyQ' = NoKey

EngineUnchanged ==
  UNCHANGED <<game, score, totalScore, storage, timeouts, intervals, flickered,
              listeners, gameInstance, overCalls>>

\* C9 as stated -- a stale key event is dropped: its dispatch advances no
\* cursor, awards nothing and cancels no timer, whatever the sequence.
StaleKeyDropped == [][StaleDispatch => EngineUnchanged]_vars

\* C9 as amended -- a stale key event is dropped unless its key equals the
\* symbol now at the cursor of the running game; then it is consumed as a
\* match of that position: the cursor advances by one and 10 points are
\* awarded.
StaleKeyDroppedUnlessEqual ==
  [][StaleDispatch =>
       LET g == game[keyQ.s]
       IN IF /\ keyQ.s \in listeners
             /\ g.idx < Len(g.seq)
             /\ keyQ.key = g.seq[g.idx + 1]
          THEN /\ game'[keyQ.s].idx = g.idx + 1
               /\ score' = JsAdd(score, POINTS)
               /\ totalScore' = JsAdd(totalScore, POINTS)
          ELSE EngineUnchanged]_vars

\* A key pressed for position p, the key p asked for, was dispatched after
\* the expiry of p had moved the cursor of the still running game, and was
\* dropped.
StaleKeyWitness ==
  /\ lastKey # NoDispatch
  /\ lastKey.s # 0
  /\ lastKey.s = gameInstance
  /\ lastKey.p < lastKey.at
  /\ lastKey.p \in misses[lastKey.s]
  /\ lastKey.key = game[lastKey.s].seq[lastKey.p + 1]
  /\ ~lastKey.hit
  /\ game[lastKey.s].idx = lastKey.at

\* C10 -- All-match session: when every position of the latest session has
\* been consumed by a match, onGameOver has been called once, with
\* 10 * MAX_ADVANCE, and the cumulative score is the score at session start
\* plus 10 * MAX_ADVANCE.
AllMatchSession ==
  \A s \in Sessions :
    (s = created /\ hits[s] = Positions) =>
      /\ overCalls[s] = 1
      /\ overArgs = << <<Num(POINTS * MAX_ADVANCE),
                         JsAdd(startTotal[s], POINTS * MAX_ADVANCE)>> >>
      /\ score = Num(POINTS * MAX_ADVANCE)
      /\ totalScore = JsAdd(startTotal[s], POINTS * MAX_ADVANCE)

\* The second session of a page whose ledger held points was played with
\* every key right.
AllMatchWitness ==
  /\ created = 2
  /\ hits[2] = Positions
  /\ ~startTotal[2].nan
  /\ startTotal[2].n > 0

\* C11 -- No-input session: while no key of the latest session has matched,
\* its positions expire one after another in order (the positions missed are
\* exactly those below the cursor, and at most one fall timeout is pending,
\* the one of the position at the cursor), the session score is 0 and the
\* cumulative score is what it was at session start; once all positions
\* have expired onGameOver has been called once, with 0.
NoInputSession ==
  \A s \in Sessions :
    (s = created /\ hits[s] = {}) =>
      /\ misses[s] = 0..(game[s].idx - 1)
      /\ \A i \in PendingOf("fall") :
           /\ timeouts[i].s = s
           /\ timeouts[i].p = game[s].idx
      /\ Cardinality(PendingOf("fall")) <= 1
      /\ score = Num(0)
      /\ totalScore = startTotal[s]
      /\ overCalls[s] = (IF misses[s] = Positions THEN 1 ELSE 0)
      /\ misses[s] = Positions => overArgs = << <<Num(0), startTotal[s]>> >>

\* The second session of a page whose ledger held points ran to its end
\* without a matching key.
NoInputWitness ==
  /\ created = 2
  /\ misses[2] = Positions
  /\ overCalls[2] = 1
  /\ ~startTotal[2].nan
  /\ startTotal[2].n > 0

\* The dispatch of a key event to a running game whose letter at the cursor
\* is not the key.
WrongKeyDispatch ==
  /\ keyQ # NoKey
  /\ keyQ' = NoKey
  /\ gameInstance # 0
  /\ gameInstance \in listeners
  /\ game[gameInstance].idx < Len(game[gameInstance].seq)
  /\ keyQ.key # game[gameInstance].seq[game[gameInstance].idx + 1]

\* C12 -- A non-matching key is a no-op: its dispatch to the running game
\* changes neither the cursor, the sequence, the session score, the
\* cumulative score (in memory and stored), nor any pending timeout or
\* running interval.
WrongKeyNoOp == [][WrongKeyDispatch => EngineUnchanged]_vars

\* A key that is not the letter at the cursor was dispatched to the running
\* game while the fall timeout of that letter was pending and its flicker
\* interval was running; the letter is still at the cursor.
WrongKeyWitness ==
  /\ lastKey # NoDispatch
  /\ lastKey.s # 0
  /\ lastKey.s = gameInstance
  /\ lastKey.p = lastKey.at
  /\ game[lastKey.s].idx = lastKey.at
  /\ lastKey.key # game[lastKey.s].seq[lastKey.at + 1]
  /\ ~lastKey.hit
  /\ Handle("interval", lastKey.s, lastKey.at) \in intervals
  /\ \E i \in PendingOf("fall") :
       timeouts[i].s = lastKey.s /\ timeouts[i].p = lastKey.at

\* The dispatch of a key event while no game is running: none was started,
\* the player backed out, or the game has ended.
IdleDispatch ==
  /\ keyQ # NoKey
  /\ keyQ' = NoKey
  /\ gameInstance = 0

\* C13 -- Input outside Active is ignored: the dispatch of any key while no
\* game is running changes neither a cursor, a score, a timer nor the count
\* of onGameOver calls; and the key handler of an instance that has ended
\* returns at once for every key.
InputOutsideActiveIgnored ==
  [][IdleDispatch =>
       /\ EngineUnchanged
       /\ \A s \in Sessions :
            overCalls[s] >= 1 => keyHandler(World, s, keyQ.key) = World]_vars

\* After the latest session ended, the key of its last letter was dispatched.
InputOutsideActiveWitness ==
  /\ lastKey # NoDispatch
  /\ gameInstance = 0
  /\ created >= 1
  /\ overCalls[created] = 1
  /\ game[created].idx = MAX_ADVANCE
  /\ lastKey.key = game[created].seq[MAX_ADVANCE]
  /\ ~lastKey.hit

\* The timers of instance s: its pending timeouts and running intervals.
TimersOf(w, s) ==
  [timeouts |-> SelectSeq(w.timeouts, LAMBDA t : t.s = s),
   intervals |-> {h \in w.intervals : h.s = s}]

\* C14 -- resetState is idempotent and safe at any time: in every state and
\* for every instance, a second resetState changes nothing the first one
\* left (sequence, cursor, timers, scores), and where the instance has no
\* timer pending resetState changes no timer at all.
ResetIdempotent ==
  \A s \in Sessions :
    LET once == resetState(World, s)
    IN /\ resetState(once, s) = once
       /\ once.game[s].seq = <<>>
       /\ once.game[s].idx = 0
       /\ (TimersOf(World, s).timeouts = <<>> /\ TimersOf(World, s).intervals = {})
            => (once.timeouts = timeouts /\ once.intervals = intervals)

\* A running game past its first letter, with its fall timeout pending, its
\* flicker interval running and a flicker timeout of an earlier letter still
\* pending: resetState cancels two of the three.
ResetIdempotentWitness ==
  /\ gameInstance # 0
  /\ game[gameInstance].idx > 0
  /\ game[gameInstance].flicker \in intervals
  /\ \E i \in PendingOf("fall") : SameTimer(timeouts[i], game[gameInstance].letterT)
  /\ Len(timeouts) >= 2
  /\ resetState(World, gameInstance).timeouts # timeouts
  /\ resetState(World, gameInstance).intervals # intervals

\* The latest instance was stopped by the back button: it exists, it is not
\* the running game and it has not called onGameOver.
BackedOut(s) == s = created /\ gameInstance = 0 /\ overCalls[s] = 0

\* C15 -- Explicit cancel reaches Idle: an instance the player backed out of
\* has no timeout pending and no interval running, its sequence is empty
\* and its cursor is 0.
CancelReachesIdle ==
  \A s \in Sessions :
    BackedOut(s) =>
      /\ TimersOf(World, s).timeouts = <<>>
      /\ TimersOf(World, s).intervals = {}
      /\ game[s].seq = <<>>
      /\ game[s].idx = 0

\* The timer pair startTimer arms for position 0 of instance s.
FreshPair(s) ==
  <<[kind |-> "flicker", s |-> s, p |-> 0, left |-> FLICKER_DELAY, age |-> 0],
    [kind |-> "fall", s |-> s, p |-> 0, left |-> FALL_DELAY, age |-> 0]>>

\* C16 -- Double-start is reset-and-restart: a start while a game is running
\* leaves the new instance at cursor 0 with a sequence of LETTER_COUNT
\* letters and exactly the timer pair of position 0 armed (no other timeout
\* pending, no interval running), as a start with no game running does; and
\* an instance that has been superseded never calls onGameOver afterwards.
DoubleStartRestarts ==
  [][/\ (gameInstance # 0 /\ created' = created + 1) =>
          /\ gameInstance' = created'
          /\ game'[created'].idx = 0
          /\ Len(game'[created'].seq) = LETTER_COUNT
          /\ timeouts' = FreshPair(created')
          /\ intervals' = {}
     /\ \A s \in Sessions : s < created => overCalls'[s] = overCalls[s]]_vars

\* C17 -- The session score is reset at session start: every step that
\* starts an instance (with no game started before, after a back-out, after
\* an ended game, or over a running game) leaves the session score 0, and
\* the score an instance passes to onGameOver is 10 times the number of its
\* own matched positions.
SessionScoreResetAtStart ==
  [][/\ created' = created + 1 => score' = Num(0)
     /\ \A s \in Sessions :
          overCalls'[s] = overCalls[s] + 1 =>
            /\ overArgs' # <<>>
            /\ overArgs'[Len(overArgs')][1] = Num(POINTS * Cardinality(hits'[s]))]_vars

\* The second session has just started (its pair is armed with the full
\* delays, nothing matched or missed yet) after a first session that earned
\* 10 points.
SessionScoreResetWitness ==
  /\ created = 2
  /\ gameInstance = 2
  /\ hits[2] = {}
  /\ misses[2] = {}
  /\ score = Num(0)
  /\ totalScore = Num(POINTS)
  /\ SelectSeq(timeouts, LAMBDA t : t.s = 2) = FreshPair(2)

\* A well-formed integer: an optional minus sign, then decimal digits only.
Unsigned(str) == IF str # <<>> /\ Head(str) = "-" THEN Tail(str) ELSE str
WellFormedInt(str) ==
  /\ str # Absent
  /\ Unsigned(str) # <<>>
  /\ \A i \in 1..Len(Unsigned(str)) : IsDigit(Unsigned(str)[i])

RECURSIVE DecimalValue(_)
DecimalValue(ds) ==
  IF Len(ds) = 1 THEN DigitVal(ds[1])
  ELSE 10 * DecimalValue(SubSeq(ds, 1, Len(ds) - 1)) + DigitVal(ds[Len(ds)])

IntValue(str) ==
  IF Head(str) = "-" THEN 0 - DecimalValue(Unsigned(str))
  ELSE DecimalValue(str)

\* The counter v is what the stored value st must load as.
LoadsAs(st, v) ==
  v = (IF WellFormedInt(st) THEN Num(IntValue(st)) ELSE Num(0))

\* A step that leaves the ledger as a page load of the stored value does.
LoadStep ==
  /\ storage' = storage
  /\ score' = Num(0)
  /\ totalScore' = loadTotalScore(storage)

\* C18 -- Ledger initialization tolerates bad storage: after the first load
\* and after every later one the cumulative counter is the stored integer
\* when the entry is a well-formed integer, and 0 when the entry is absent
\* or malformed; it is never NaN.
LedgerInitTolerant ==
  /\ LoadsAs(storage, totalScore)
  /\ [][LoadStep => LoadsAs(storage', totalScore')]_vars

\* cumulative - session, in the arithmetic of the source.
Diff(t, sc) == IF t.nan \/ sc.nan THEN NaN ELSE Num(t.n - sc.n)

\* C19 -- increment(points) adds points to the session counter and to the
\* cumulative counter and then persists: from every state of the ledger
\* and for every amount, both counters grow by the amount and the stored
\* value is the cumulative counter as a string; a step that changes the
\* session score to anything but 0 is such an increment; and cumulative -
\* session changes in no step but one that resets the session score.
IncrementAddsToBoth ==
  [][/\ \A points \in LedgerPoints :
          LET w == increment(World, points)
          IN /\ w.score = JsAdd(score, points)
             /\ w.totalScore = JsAdd(totalScore, points)
             /\ w.storage = toString(w.totalScore)
     /\ (score' # score /\ score' # Num(0)) =>
          /\ \E points \in LedgerPoints :
               /\ score' = JsAdd(score, points)
               /\ totalScore' = JsAdd(totalScore, points)
          /\ storage' = toString(totalScore')
     /\ (score' # Num(0) \/ score = Num(0)) =>
          Diff(totalScore', score') = Diff(totalScore, score)]_vars

\* After a ledger reset, increments of 7 and 10 brought the session score to
\* 17 and the cumulative score to 31, which is what the storage holds.
IncrementWitness ==
  /\ score = Num(17)
  /\ totalScore = Num(31)
  /\ storage = <<"3", "1">>

\* C20 -- Ledger reset sets the session counter to 0 and leaves the
\* cumulative counter and the stored value as they are: from every state
\* of the ledger reset yields that, and every step that zeroes a non-zero
\* session score changes neither the cumulative counter nor the storage.
ResetKeepsCumulative ==
  [][/\ LET w == reset(World)
        IN /\ w.score = Num(0)
           /\ w.totalScore = totalScore
           /\ w.storage = storage
     /\ (score # Num(0) /\ score' = Num(0)) =>
          /\ totalScore' = totalScore
          /\ storage' = storage]_vars

\* The session counter was zeroed after increments of 10 and 7 on a loaded
\* 4: the cumulative counter and the storage still hold 21.
ResetKeepsCumulativeWitness ==
  /\ score = Num(0)
  /\ totalScore = Num(21)
  /\ storage = <<"2", "1">>

\* The cumulative counter is what a load of the storage entry gives: the
\* state after a page load, or after a save.
JustLoaded == totalScore = loadTotalScore(storage)

\* The string toString gives for the value the entry loads as: a decimal
\* integer without leading zeros or a minus zero, or "NaN".
CanonicalStored(st) ==
  \/ st = <<"N", "a", "N">>
  \/ /\ WellFormedInt(st)
     /\ Len(Unsigned(st)) = 1 \/ Head(Unsigned(st)) # "0"
     /\ st # <<"-", "0">>

\* C21 as stated -- Persistence round trip: for every content of the
\* storage entry, saving the value just loaded leaves the entry and the
\* cumulative counter as they were, and a second load gives the same value.
RoundTripNoOp ==
  JustLoaded =>
    LET w == saveTotalScore(World)
    IN /\ w.storage = storage
       /\ w.totalScore = totalScore
       /\ loadTotalScore(w.storage) = totalScore

\* C21 as amended -- saving the value just loaded leaves the cumulative
\* counter as it was and a second load gives the same value; the entry is
\* left as it was exactly when it already held the string of that value,
\* otherwise it is rewritten to that string.
RoundTripValue ==
  JustLoaded =>
    LET w == saveTotalScore(World)
    IN /\ w.totalScore = totalScore
       /\ loadTotalScore(w.storage) = totalScore
       /\ (w.storage = storage) <=> CanonicalStored(storage)
       /\ CanonicalStored(w.storage)

\* The entry held a string with no leading digit when the page was loaded;
\* the loaded value has been saved back.
RoundTripWitness ==
  /\ storage = <<"N", "a", "N">>
  /\ totalScore = NaN
  /\ score = Num(0)

\* The persisted score: the value the storage entry loads as.
Persisted(st) == loadTotalScore(st)

\* C22 -- Expiry awards nothing: a step in which the fall callback of a
\* position runs moves the cursor of its instance forward by exactly 1 and
\* leaves the session score, the cumulative score and the persisted score
\* as they were; and a step that changes the cumulative or the persisted
\* score, or raises the session score, is the dispatch of a matching key.
ExpiryAwardsNothing ==
  [][/\ \A s \in Sessions :
          misses'[s] \ misses[s] # {} =>
            /\ game'[s].idx = game[s].idx + 1
            /\ Cardinality(misses'[s]) = Cardinality(misses[s]) + 1
            /\ score' = score
            /\ totalScore' = totalScore
            /\ Persisted(storage') = Persisted(storage)
     /\ (\/ totalScore' # totalScore
         \/ Persisted(storage') # Persisted(storage)
         \/ score' # score /\ score' # Num(0)) =>
          /\ lastKey'.hit
          /\ \E s \in Sessions :
               hits'[s] \ hits[s] # {} /\ misses'[s] = misses[s]]_vars

\* The latest session ended by the expiry of its last position after a
\* match: the session score is still the 10 points of the match.
ExpiryAwardsNothingWitness ==
  /\ created >= 1
  /\ overCalls[created] = 1
  /\ (MAX_ADVANCE - 1) \in misses[created]
  /\ Cardinality(hits[created]) = 1
  /\ score = Num(POINTS)
  /\ overArgs # <<>>
  /\ overArgs[Len(overArgs)][1] = Num(POINTS)

\* The configured delay of a timeout of startTimer.
DelayOf(kind) == IF kind = "fall" THEN FALL_DELAY ELSE FLICKER_DELAY

\* Instance s has the pending timeout of the given kind for position p, with
\* at least `age` ms since it was armed.
PendingAged(s, p, kind, age) ==
  \E i \in 1..Len(timeouts) :
    /\ timeouts[i].kind = kind
    /\ timeouts[i].s = s
    /\ timeouts[i].p = p
    /\ timeouts[i].age >= age

\* C23 -- Deadlines restart fresh for every position: in the step in which
\* the cursor of a running instance becomes p, the flicker and the fall
\* timeout of p are armed with the full delays and no time on them; the
\* fall callback of p runs only when FALL_DELAY ms have passed since then,
\* the flicker callback only when FLICKER_DELAY ms have; and when the fall
\* callback of p runs, the flicker callback of p has run before.
DeadlinesRestartFresh ==
  [][\A s \in Sessions :
       /\ ( /\ game'[s].idx # game[s].idx \/ (created' = s /\ created # s)
            /\ game'[s].idx < MAX_ADVANCE
            /\ game'[s].idx < Len(game'[s].seq) ) =>
            \E i, j \in 1..Len(timeouts') :
              /\ timeouts'[i] = [kind |-> "flicker", s |-> s, p |-> game'[s].idx,
                                 left |-> FLICKER_DELAY, age |-> 0]
              /\ timeouts'[j] = [kind |-> "fall", s |-> s, p |-> game'[s].idx,
                                 left |-> FALL_DELAY, age |-> 0]
       /\ \A p \in Positions :
            /\ p \in misses'[s] \ misses[s] =>
                 /\ PendingAged(s, p, "fall", FALL_DELAY)
                 /\ <<s, p>> \in flickered
            /\ <<s, p>> \in flickered' \ flickered =>
                 PendingAged(s, p, "flicker", FLICKER_DELAY)]_vars

\* Position 0 of the first session was matched and position 1 expired; the
\* flicker callbacks of both positions ran.
DeadlinesWitness ==
  /\ created = 1
  /\ hits[1] = {0}
  /\ misses[1] = {1}
  /\ <<1, 0>> \in flickered
  /\ <<1, 1>> \in flickered

\* Instance s was left without having ended: the player backed out of it or
\* started another game over it.
Abandoned(s) == gameInstance # s /\ overCalls[s] = 0

\* C24 -- Every session terminates: while a game is running the fall timeout
\* of the position at its cursor is pending, and under the scheduling of the
\* event loop every running game that is not abandoned comes to call
\* onGameOver, whatever keys are pressed.
SessionTerminates ==
  /\ [](gameInstance # 0 =>
          \E i \in PendingOf("fall") :
            /\ timeouts[i].s = gameInstance
            /\ timeouts[i].p = game[gameInstance].idx)
  /\ \A s \in Sessions :
       (gameInstance = s) ~> (overCalls[s] = 1 \/ Abandoned(s))

\* The first session ended with its first position expired and its second
\* matched.
SessionTerminatesWitness ==
  /\ created = 1
  /\ gameInstance = 0
  /\ overCalls[1] = 1
  /\ misses[1] = {0}
  /\ hits[1] = {1}

\* C25 -- Score accounting: in every state the session score is 10 times
\* the number of positions the latest instance consumed by a match; the
\* matched and the expired positions together are exactly the positions
\* below its cursor, so the session score is at most 10 times the cursor and
\* the cursor at most the advance limit; and the score passed to onGameOver
\* is 10 times the number of matched positions, at most 10 * MAX_ADVANCE.
ScoreAccounting ==
  IF created = 0 THEN score = Num(0) /\ overArgs = <<>>
  ELSE LET s == created
           matched == Cardinality(hits[s])
       IN /\ score = Num(POINTS * matched)
          /\ hits[s] \cap misses[s] = {}
          /\ hits[s] \cup misses[s] = 0..(game[s].idx - 1)
          /\ matched <= game[s].idx
          /\ game[s].idx <= MAX_ADVANCE
          /\ \A i \in 1..Len(overArgs) :
               /\ overArgs[i][1] = Num(POINTS * matched)
               /\ ~overArgs[i][1].nan
               /\ overArgs[i][1].n <= POINTS * MAX_ADVANCE

\* The second session ended with its first position matched and its second
\* expired, after a first session in which both positions were matched.
ScoreAccountingWitness ==
  /\ created = 2
  /\ gameInstance = 0
  /\ hits[2] = {0}
  /\ misses[2] = {1}
  /\ score = Num(POINTS)
  /\ totalScore = Num(3 * POINTS)
  /\ overArgs = << <<Num(POINTS), Num(3 * POINTS)>> >>

====
